---- MODULE Spec2Model ----
(***************************************************************************)
(* A model of lib/sepa.js: the SEPA document entities (Document, group     *)
(* header, payment-info blocks, transactions), their serialization to an   *)
(* element tree, and the mod-97 check-digit functions for IBANs and        *)
(* creditor ids.                                                           *)
(*                                                                         *)
(* Strings are sequences of one-character strings, so that substr, slice,  *)
(* indexOf, concatenation and number formatting are computed as the code   *)
(* computes them.  Amounts are integers counting cents.                    *)
(***************************************************************************)
EXTENDS Integers, Sequences, FiniteSets, TLC

VARIABLES
  kind,          \* checksum module: which kind of input string was drawn
  orig,          \* checksum module: the input string as drawn
  str,           \* checksum module: the current string (input, or checksumXxx's result)
  calls,         \* checksum module: the functions called so far, in order
  valid,         \* checksum module: the result of the last validateXxx call
  mod,           \* checksum module: the result of the last _txtMod97 call
  ID_SEPARATOR,  \* the module-level id separator
  doc,           \* the SepaDocument: _painFormat, _type, _paymentInfo (references)
  grpHdr,        \* doc.grpHdr, the SepaGroupHeader
  pis,           \* the SepaPaymentInfo objects created so far, by reference
  txs,           \* the SepaTransaction objects created so far, by reference
  call,          \* the name of the last call made
  ret,           \* what the last call did: the error thrown, the tree returned
  nops           \* the number of calls made so far

chkVars == <<kind, orig, str, calls, valid, mod>>
docVars == <<ID_SEPARATOR, doc, grpHdr, pis, txs, call, ret, nops>>

vars == <<kind, orig, str, calls, valid, mod,
          ID_SEPARATOR, doc, grpHdr, pis, txs, call, ret, nops>>

\* ------------------------------------------------------------------ bounds

\* Longest IBAN body / creditor national id drawn from BodyChars.
MaxBody == 3
\* Longest digit string drawn for _txtMod97.
MaxDigits == 3
\* SepaPaymentInfo objects / SepaTransaction objects the caller creates.
MaxPI == 2
MaxTx == 2
\* Longest doc._paymentInfo / pi._payments the caller builds.
MaxBatches == 2
MaxPayments == 2
\* Calls made on the entity model in one behaviour.
MaxOps == 7

\* ----------------------------------------------------------------- strings

Digits == <<"0","1","2","3","4","5","6","7","8","9">>
Upper == <<"A","B","C","D","E","F","G","H","I","J","K","L","M",
           "N","O","P","Q","R","S","T","U","V","W","X","Y","Z">>
Lower == <<"a","b","c","d","e","f","g","h","i","j","k","l","m",
           "n","o","p","q","r","s","t","u","v","w","x","y","z">>

Min(a, b) == IF a < b THEN a ELSE b
Max(a, b) == IF a > b THEN a ELSE b

IndexIn(tbl, c) == CHOOSE i \in 1..Len(tbl) : tbl[i] = c
IsIn(tbl, c) == \E i \in 1..Len(tbl) : tbl[i] = c

\* String.prototype.charCodeAt for one character (ASCII).
charCodeAt(c) ==
  IF IsIn(Digits, c) THEN 47 + IndexIn(Digits, c)
  ELSE IF IsIn(Upper, c) THEN 64 + IndexIn(Upper, c)
  ELSE IF IsIn(Lower, c) THEN 96 + IndexIn(Lower, c)
  ELSE IF c = " " THEN 32
  ELSE IF c = "-" THEN 45
  ELSE IF c = "." THEN 46
  ELSE IF c = "/" THEN 47
  ELSE IF c = ":" THEN 58
  ELSE 95

\* Number.prototype.toString for a non-negative integer.
RECURSIVE NumToStr(_)
NumToStr(n) ==
  IF n < 10 THEN <<Digits[n + 1]>>
  ELSE NumToStr(n \div 10) \o <<Digits[(n % 10) + 1]>>

\* String.prototype.substr(start, length): a negative start counts from the end.
substr(s, start, len) ==
  LET n == Len(s)
      b == IF start < 0 THEN Max(n + start, 0) ELSE Min(start, n)
      e == Min(b + Max(len, 0), n)
  IN SubSeq(s, b + 1, e)

\* String.prototype.substr(start): to the end of the string.
substrFrom(s, start) == substr(s, start, Len(s))

\* --------------------------------------------------- checksum functions

\* parseInt(ch, 10) of one decimal digit character.
parseInt10(ch) == IndexIn(Digits, ch) - 1

RECURSIVE _replaceChars(_)
_replaceChars(s) ==
  IF s = <<>> THEN <<>>
  ELSE LET cc == charCodeAt(Head(s))
           d == IF cc >= 65 /\ cc <= 90 THEN NumToStr(cc - 55)
                ELSE IF cc >= 97 /\ cc <= 122 THEN NumToStr(cc - 87)
                ELSE IF cc >= 48 /\ cc <= 57 THEN <<Head(s)>>
                ELSE <<>>
       IN d \o _replaceChars(Tail(s))

\* One turn of _txtMod97's loop (the mutant takes the remainder before adding).
Mod97Step_Late(res, ch) == ((res * 10) % 97) + parseInt10(ch)

Mod97Step(res, ch) == (res * 10 + parseInt10(ch)) % 97

\* The values res takes in _txtMod97's loop, in order, after each character.
RECURSIVE Mod97Accs(_, _)
Mod97Accs(res, s) ==
  IF s = <<>> THEN <<>>
  ELSE LET r == Mod97Step(res, Head(s)) IN <<r>> \o Mod97Accs(r, Tail(s))

_txtMod97(s) == IF s = <<>> THEN 0 ELSE Mod97Accs(0, s)[Len(s)]

validateIBAN(iban) ==
  LET ibrev == substrFrom(iban, 4) \o substr(iban, 0, 4)
  IN _txtMod97(_replaceChars(ibrev)) = 1

\* The mutant does not pad the check number to two digits.
checksumIBAN_NoPad(iban) ==
  LET ibrev == substrFrom(iban, 4) \o substr(iban, 0, 2) \o <<"0","0">>
      m == _txtMod97(_replaceChars(ibrev))
  IN substr(iban, 0, 2) \o NumToStr(98 - m) \o substrFrom(iban, 4)

checksumIBAN(iban) ==
  LET ibrev == substrFrom(iban, 4) \o substr(iban, 0, 2) \o <<"0","0">>
      m == _txtMod97(_replaceChars(ibrev))
  IN substr(iban, 0, 2) \o substr(<<"0">> \o NumToStr(98 - m), -2, 2)
       \o substrFrom(iban, 4)

validateCreditorID(cid) ==
  LET cidrev == substrFrom(cid, 7) \o substr(cid, 0, 4)
  IN _txtMod97(_replaceChars(cidrev)) = 1

\* The mutant rotates like checksumIBAN: the business code enters the sum.
checksumCreditorID_Rot4(cid) ==
  LET cidrev == substrFrom(cid, 4) \o substr(cid, 0, 2) \o <<"0","0">>
      m == _txtMod97(_replaceChars(cidrev))
  IN substr(cid, 0, 2) \o substr(<<"0">> \o NumToStr(98 - m), -2, 2)
       \o substrFrom(cid, 4)

checksumCreditorID(cid) ==
  LET cidrev == substrFrom(cid, 7) \o substr(cid, 0, 2) \o <<"0","0">>
      m == _txtMod97(_replaceChars(cidrev))
  IN substr(cid, 0, 2) \o substr(<<"0">> \o NumToStr(98 - m), -2, 2)
       \o substrFrom(cid, 4)

\* ----------------------------------------------- inputs of the checksum module

StringsUpTo(chars, n) == UNION {[1..k -> chars] : k \in 0..n}

CountryCodes == {<<"D","E">>, <<"G","B">>, <<"f","r">>}
Placeholders == {<<"0","0">>, <<"9","9">>, <<"X","X">>}
BusinessCodes == {<<"Z","Z","Z">>, <<"0","a","7">>}
BodyChars == {"0", "5", "9", "A", "z"}

IbanExample ==
  <<"D","E","0","0","1","2","3","4","5","6","7","8",
    "1","2","3","4","5","6","7","8","9","0">>
IbanExampleChecked ==
  <<"D","E","8","7","1","2","3","4","5","6","7","8",
    "1","2","3","4","5","6","7","8","9","0">>
CidExample ==
  <<"D","E","0","0","Z","Z","Z","0","9","9","9","9","9","9","9","9","9","9">>
CidExampleChecked ==
  <<"D","E","9","8","Z","Z","Z","0","9","9","9","9","9","9","9","9","9","9">>
LongDigits ==
  <<"1","2","3","4","5","6","7","8","9","0","1","2","3","4","5","6","7","8","9","0",
    "1","2","3","4","5","6">>

IbanSkeletons ==
  {cc \o ph \o b : cc \in CountryCodes, ph \in Placeholders,
                   b \in StringsUpTo(BodyChars, MaxBody)}
    \cup {IbanExample}

CreditorSkeletons ==
  {cc \o ph \o bc \o b : cc \in CountryCodes, ph \in Placeholders,
                         bc \in BusinessCodes, b \in StringsUpTo(BodyChars, MaxBody)}
    \cup {CidExample}

DigitStrings ==
  StringsUpTo({Digits[i] : i \in 1..Len(Digits)}, MaxDigits) \cup {LongDigits}

InitChk ==
  /\ kind \in {"iban", "cid", "digits"}
  /\ orig \in (CASE kind = "iban" -> IbanSkeletons
                 [] kind = "cid" -> CreditorSkeletons
                 [] kind = "digits" -> DigitStrings)
  /\ str = orig
  /\ calls = <<>>
  /\ valid = FALSE
  /\ mod = 0
  /\ ID_SEPARATOR = <<".">>
  /\ doc = <<>> /\ grpHdr = <<>> /\ pis = <<>> /\ txs = <<>>
  /\ call = "none" /\ ret = <<>> /\ nops = 0

CallChecksumIBAN ==
  /\ kind = "iban" /\ calls = <<>>
  /\ str' = checksumIBAN(str)
  /\ calls' = Append(calls, "checksumIBAN")
  /\ UNCHANGED <<kind, orig, valid, mod>> /\ UNCHANGED docVars

CallValidateIBAN ==
  /\ kind = "iban" /\ (calls = <<>> \/ calls = <<"checksumIBAN">>)
  /\ valid' = validateIBAN(str)
  /\ calls' = Append(calls, "validateIBAN")
  /\ UNCHANGED <<kind, orig, str, mod>> /\ UNCHANGED docVars

CallChecksumCreditorID ==
  /\ kind = "cid" /\ calls = <<>>
  /\ str' = checksumCreditorID(str)
  /\ calls' = Append(calls, "checksumCreditorID")
  /\ UNCHANGED <<kind, orig, valid, mod>> /\ UNCHANGED docVars

CallValidateCreditorID ==
  /\ kind = "cid" /\ (calls = <<>> \/ calls = <<"checksumCreditorID">>)
  /\ valid' = validateCreditorID(str)
  /\ calls' = Append(calls, "validateCreditorID")
  /\ UNCHANGED <<kind, orig, str, mod>> /\ UNCHANGED docVars

CallTxtMod97 ==
  /\ kind = "digits" /\ calls = <<>>
  /\ mod' = _txtMod97(str)
  /\ calls' = Append(calls, "_txtMod97")
  /\ UNCHANGED <<kind, orig, str, valid>> /\ UNCHANGED docVars

NextChk ==
  \/ CallChecksumIBAN
  \/ CallValidateIBAN
  \/ CallChecksumCreditorID
  \/ CallValidateCreditorID
  \/ CallTxtMod97

SpecChk == InitChk /\ [][NextChk]_vars

\* ------------------------------------------------------------- registry

\* The characters of the format identifiers the model draws.
FormatChars(f) ==
  CASE f = "pain.001.001.02" -> <<"p","a","i","n",".","0","0","1",".","0","0","1",".","0","2">>
    [] f = "pain.001.003.02" -> <<"p","a","i","n",".","0","0","1",".","0","0","3",".","0","2">>
    [] f = "pain.001.001.03" -> <<"p","a","i","n",".","0","0","1",".","0","0","1",".","0","3">>
    [] f = "pain.001.002.03" -> <<"p","a","i","n",".","0","0","1",".","0","0","2",".","0","3">>
    [] f = "pain.001.003.03" -> <<"p","a","i","n",".","0","0","1",".","0","0","3",".","0","3">>
    [] f = "pain.008.001.01" -> <<"p","a","i","n",".","0","0","8",".","0","0","1",".","0","1">>
    [] f = "pain.008.003.01" -> <<"p","a","i","n",".","0","0","8",".","0","0","3",".","0","1">>
    [] f = "pain.008.001.02" -> <<"p","a","i","n",".","0","0","8",".","0","0","1",".","0","2">>
    [] f = "pain.008.003.02" -> <<"p","a","i","n",".","0","0","8",".","0","0","3",".","0","2">>
    [] f = "pain.002.001.03" -> <<"p","a","i","n",".","0","0","2",".","0","0","1",".","0","3">>

RegisteredFormats ==
  {"pain.001.001.02", "pain.001.003.02", "pain.001.001.03", "pain.001.002.03",
   "pain.001.003.03", "pain.008.001.01", "pain.008.003.01", "pain.008.001.02",
   "pain.008.003.02"}

\* SEPATypes[painFormat]; "undefined" stands for the value undefined.
SEPATypes(f) ==
  CASE f \in {"pain.001.001.02", "pain.001.003.02", "pain.008.001.01", "pain.008.003.01"} -> f
    [] f \in {"pain.001.001.03", "pain.001.002.03", "pain.001.003.03"} -> "CstmrCdtTrfInitn"
    [] f \in {"pain.008.001.02", "pain.008.003.02"} -> "CstmrDrctDbtInitn"
    [] OTHER -> "undefined"

\* s.indexOf(prefix) === 0
StartsWith(s, prefix) ==
  Len(s) >= Len(prefix) /\ SubSeq(s, 1, Len(prefix)) = prefix

\* parseInt(s, 10) of a string that starts with decimal digits: the value of
\* the leading digits (every identifier the model draws ends with two digits).
RECURSIVE LeadingDigits(_)
LeadingDigits(s) ==
  IF s = <<>> \/ ~IsIn(Digits, Head(s)) THEN <<>>
  ELSE <<Head(s)>> \o LeadingDigits(Tail(s))

RECURSIVE DigitsValue(_, _)
DigitsValue(acc, s) ==
  IF s = <<>> THEN acc ELSE DigitsValue(acc * 10 + parseInt10(Head(s)), Tail(s))

parseInt(s) == DigitsValue(0, LeadingDigits(s))

getPainXMLVersion_NoInc(painFormat) ==
  parseInt(substrFrom(FormatChars(painFormat), -2))

getPainXMLVersion(painFormat) ==
  LET inc == IF StartsWith(FormatChars(painFormat), <<"p","a","i","n",".","0","0","8">>)
             THEN 1 ELSE 0
  IN parseInt(substrFrom(FormatChars(painFormat), -2)) + inc

\* ------------------------------------------------------------- entities

\* null and the empty string (both falsy, both an empty text content).
Null == <<>>
Truthy(v) == v # <<>>

\* A Date, held as the text its toISOString() returns.
DateISO ==
  <<"2","0","1","5","-","0","3","-","0","4","T","0","5",":","0","6",":","0","7",
    ".","0","0","0","Z">>

PaymentInfoTypes == [DirectDebit |-> <<"D","D">>, Transfer |-> <<"T","R","F">>]
TransactionTypes == [DirectDebit |-> "DrctDbtTxInf", Transfer |-> "CdtTrfTxInf"]

\* Name, address, IBAN and BIC of a party, as the prototypes initialise them.
BlankParty ==
  [Name |-> <<>>, Street |-> Null, City |-> Null, Country |-> Null,
   IBAN |-> <<>>, BIC |-> <<>>]

\* new SepaGroupHeader(options), over SepaGroupHeader.prototype's defaults.
SepaGroupHeader(options) ==
  [_painFormat |-> options.painFormat,
   id |-> options.id,
   created |-> options.created,
   initiatorName |-> options.initiatorName,
   transactionCount |-> 0,
   controlSum |-> 0,
   batchBooking |-> FALSE,
   grouping |-> <<"M","I","X","D">>]

\* new SepaDocument(options): the format defaults when options names none.
SepaDocument(options) ==
  LET painFormat == IF options.painFormat # "" THEN options.painFormat
                    ELSE "pain.008.001.02"
  IN [doc |-> [_painFormat |-> painFormat,
               _type |-> SEPATypes(painFormat),
               _paymentInfo |-> <<>>],
      grpHdr |-> SepaGroupHeader([options EXCEPT !.painFormat = painFormat])]

\* new SepaPaymentInfo(painFormat), over SepaPaymentInfo.prototype's defaults.
SepaPaymentInfo(painFormat) ==
  [made |-> TRUE,
   _painFormat |-> painFormat,
   method |-> IF StartsWith(FormatChars(painFormat), <<"p","a","i","n",".","0","0","1">>)
              THEN PaymentInfoTypes.Transfer ELSE PaymentInfoTypes.DirectDebit,
   _payments |-> <<>>,
   id |-> <<>>,
   batchBooking |-> FALSE,
   grouping |-> <<"M","I","X","D">>,
   controlSum |-> 0,
   localInstrumentation |-> Null,
   sequenceType |-> <<"F","R","S","T">>,
   collectionDate |-> Null,
   requestedExecutionDate |-> Null,
   creditorId |-> <<>>,
   creditor |-> BlankParty,
   debtorId |-> <<>>,
   debtor |-> BlankParty,
   instructionPriority |-> <<"N","O","R","M">>]

\* new SepaTransaction(painFormat), over SepaTransaction.prototype's defaults.
SepaTransaction(painFormat) ==
  [made |-> TRUE,
   _painFormat |-> painFormat,
   _type |-> IF StartsWith(FormatChars(painFormat), <<"p","a","i","n",".","0","0","1">>)
             THEN TransactionTypes.Transfer ELSE TransactionTypes.DirectDebit,
   id |-> <<>>,
   end2endId |-> <<>>,
   currency |-> <<"E","U","R">>,
   amount |-> 0,
   purposeCode |-> Null,
   mandateId |-> <<>>,
   mandateSignatureDate |-> Null,
   ammendment |-> Null,
   debtor |-> BlankParty,
   remittanceInfo |-> <<>>,
   creditor |-> BlankParty]

\* A slot of the heap no object has been created in yet.
NoPaymentInfo == [SepaPaymentInfo("pain.008.001.02") EXCEPT !.made = FALSE]
NoTransaction == [SepaTransaction("pain.008.001.02") EXCEPT !.made = FALSE]

PIRef(i) == [k |-> "PI", i |-> i]
TXRef(i) == [k |-> "TX", i |-> i]
\* A value that is neither a SepaPaymentInfo nor a SepaTransaction.
OtherValue == [k |-> "other", i |-> 0]

MadePIs == {i \in 1..MaxPI : pis[i].made}
MadeTXs == {i \in 1..MaxTx : txs[i].made}

\* pi instanceof SepaPaymentInfo (the mutant accepts any object of the module).
IsPaymentInfo_AnyObject(v) == v.k \in {"PI", "TX"}

IsPaymentInfo(v) == v.k = "PI"

\* pmt instanceof SepaTransaction
IsTransaction(v) == v.k = "TX"

\* String.prototype.slice(0, n)
slice0(s, n) == SubSeq(s, 1, Min(n, Len(s)))

\* --------------------------------------------------------- normalization

\* The loop of SepaPaymentInfo.normalize over this._payments.
RECURSIVE SumAmounts(_, _, _)
SumAmounts(controlSum, payments, ts) ==
  IF payments = <<>> THEN controlSum
  ELSE SumAmounts(controlSum + ts[Head(payments).i].amount, Tail(payments), ts)

\* SepaPaymentInfo.normalize (the mutant adds to the sum the block already holds).
PINormalize_NoReset(pi, ts) ==
  [pi EXCEPT !.controlSum = SumAmounts(pi.controlSum, pi._payments, ts)]

PINormalize(pi, ts) ==
  [pi EXCEPT !.controlSum = SumAmounts(0, pi._payments, ts)]

\* get transactionCount()
transactionCount(pi) == Len(pi._payments)

\* The loop of SepaDocument.normalize over this._paymentInfo.
RECURSIVE NormalizeLoop(_, _, _, _, _)
NormalizeLoop(list, ps, ts, controlSum, txCount) ==
  IF list = <<>> THEN [pis |-> ps, controlSum |-> controlSum, txCount |-> txCount]
  ELSE LET r == Head(list).i
           ps1 == [ps EXCEPT ![r] = PINormalize(ps[r], ts)]
       IN NormalizeLoop(Tail(list), ps1, ts, controlSum + ps1[r].controlSum,
                        txCount + transactionCount(ps1[r]))

\* SepaDocument.normalize: the payment-info blocks and the group header after it.
Normalize(d, h, ps, ts) ==
  LET n == NormalizeLoop(d._paymentInfo, ps, ts, 0, 0)
  IN [pis |-> n.pis,
      hdr |-> [h EXCEPT !.controlSum = n.controlSum, !.transactionCount = n.txCount]]

\* ---------------------------------------------------------- serialization

XSI_NAMESPACE ==
  <<"h","t","t","p",":","/","/","w","w","w",".","w","3",".","o","r","g","/",
    "2","0","0","1","/","X","M","L","S","c","h","e","m","a","-",
    "i","n","s","t","a","n","c","e">>
XSI_NS ==
  <<"u","r","n",":","i","s","o",":","s","t","d",":","i","s","o",":",
    "2","0","0","2","2",":","t","e","c","h",":","x","s","d",":">>

\* An element of the DOM tree: tag name, text content, attributes, children.
Elem(name, text, attrs, kids) ==
  [name |-> name, text |-> text, attrs |-> attrs, kids |-> kids]

\* The chain of nested elements the helper creates for its name arguments; the
\* innermost one carries the text, the attributes set on the returned node and
\* the children appended to it afterwards.
RECURSIVE Nest(_, _, _, _)
Nest(names, text, attrs, kids) ==
  IF Len(names) = 1 THEN Elem(names[1], text, attrs, kids)
  ELSE Elem(names[1], <<>>, <<>>, <<Nest(Tail(names), text, attrs, kids)>>)

\* createXMLHelper(doc, required, withVal): what a call appends to the parent
\* node (nothing when the value is optional and falsy).
createXMLHelper(required, withVal, names, val, attrs, kids) ==
  LET v == IF withVal THEN val ELSE Null
  IN IF required \/ Truthy(v)
     THEN <<Nest(names, IF withVal THEN val ELSE <<>>, attrs, kids)>>
     ELSE <<>>

\* var n = createXMLHelper(doc, true, false), with the children appended later
N(names, kids) == createXMLHelper(TRUE, FALSE, names, Null, <<>>, kids)
\* var o = createXMLHelper(doc, false, true)
O(names, val) == createXMLHelper(FALSE, TRUE, names, val, <<>>, <<>>)
\* var r = createXMLHelper(doc, true, true)
R(names, val) == createXMLHelper(TRUE, TRUE, names, val, <<>>, <<>>)

\* Number.prototype.toFixed(2) of an amount held in cents.
toFixed2(cents) ==
  NumToStr(cents \div 100) \o <<".">>
    \o <<Digits[((cents % 100) \div 10) + 1], Digits[(cents % 10) + 1]>>

\* Boolean.prototype.toString
BoolToString(b) == IF b THEN <<"t","r","u","e">> ELSE <<"f","a","l","s","e">>

\* The outcome of a toXML call: an element, or a TypeError thrown on the way.
Built(node) == [threw |-> FALSE, node |-> node]
TypeErrorThrown == [threw |-> TRUE, node |-> <<>>]

\* The postal address block both PmtInf and the transactions add.
PstlAdr(party) ==
  N(<<"PstlAdr">>,
    R(<<"Ctry">>, party.Country) \o R(<<"AdrLine">>, party.Street)
      \o R(<<"AdrLine">>, party.City))

\* SepaGroupHeader.prototype.toXML; toISOString() of a missing date throws.
GroupHeaderToXML(h) ==
  LET painVersion == getPainXMLVersion(h._painFormat)
  IN IF h.created = Null THEN TypeErrorThrown
     ELSE Built(Elem("GrpHdr", <<>>, <<>>,
            R(<<"MsgId">>, h.id)
            \o R(<<"CreDtTm">>, h.created)
            \o (IF painVersion = 2
                THEN R(<<"BtchBookg">>, BoolToString(h.batchBooking)) ELSE <<>>)
            \o R(<<"NbOfTxs">>, NumToStr(h.transactionCount))
            \o R(<<"CtrlSum">>, toFixed2(h.controlSum))
            \o (IF painVersion = 2 THEN R(<<"Grpg">>, h.grouping) ELSE <<>>)
            \o R(<<"InitgPty", "Nm">>, h.initiatorName)))

\* SepaTransaction.prototype.toXML
TransactionToXML(t) ==
  LET isTransfer == t._type = TransactionTypes.Transfer
      pullFrom == IF isTransfer THEN t.creditor ELSE t.debtor
      receiverNodeName == IF isTransfer THEN "Cdtr" ELSE "Dbtr"
      painVersion == getPainXMLVersion(t._painFormat)
      ccy == <<[name |-> "Ccy", value |-> t.currency]>>
      paymentId == N(<<"PmtId">>,
                     R(<<"InstrId">>, t.id) \o R(<<"EndToEndId">>, t.end2endId))
      mandate == N(<<"DrctDbtTx", "MndtRltdInf">>,
                   R(<<"MndtId">>, t.mandateId)
                   \o R(<<"DtOfSgntr">>, substr(t.mandateSignatureDate, 0, 10))
                   \o (IF Truthy(t.ammendment)
                       THEN R(<<"AmdmntInd">>, <<"t","r","u","e">>)
                            \o R(<<"AmdmnInfDtls">>, t.ammendment)
                       ELSE R(<<"AmdmntInd">>, <<"f","a","l","s","e">>)))
      amount == IF isTransfer
                THEN createXMLHelper(TRUE, TRUE, <<"Amt", "InstdAmt">>,
                                     toFixed2(t.amount), ccy, <<>>)
                ELSE createXMLHelper(TRUE, TRUE, <<"InstdAmt">>,
                                     toFixed2(t.amount), ccy, <<>>)
                     \o mandate
      agent == IF Truthy(pullFrom.BIC)
               THEN R(<<receiverNodeName \o "Agt", "FinInstnId", "BIC">>, pullFrom.BIC)
               ELSE R(<<receiverNodeName \o "Agt", "FinInstnId", "Othr", "Id">>,
                      <<"N","O","T","P","R","O","V","I","D","E","D">>)
      receiver == N(<<receiverNodeName>>,
                    R(<<"Nm">>, pullFrom.Name)
                    \o (IF Truthy(pullFrom.Street) /\ Truthy(pullFrom.City)
                           /\ Truthy(pullFrom.Country)
                        THEN PstlAdr(t.debtor) ELSE <<>>))
  IN IF ~isTransfer /\ t.mandateSignatureDate = Null THEN TypeErrorThrown
     ELSE Built(Elem(t._type, <<>>, <<>>,
            paymentId \o amount \o agent \o receiver
            \o R(<<receiverNodeName \o "Acct", "Id", "IBAN">>, pullFrom.IBAN)
            \o R(<<"RmtInf", "Ustrd">>, t.remittanceInfo)
            \o (IF painVersion # 3 THEN O(<<"Purp", "Cd">>, t.purposeCode) ELSE <<>>)))

\* The mutant catches what a transaction's toXML throws and goes on with the
\* next one.
RECURSIVE PaymentsToXML_SkipFailed(_, _)
PaymentsToXML_SkipFailed(payments, ts) ==
  IF payments = <<>> THEN [threw |-> FALSE, nodes |-> <<>>]
  ELSE LET first == TransactionToXML(ts[Head(payments).i])
           rest == PaymentsToXML_SkipFailed(Tail(payments), ts)
       IN [threw |-> FALSE,
           nodes |-> (IF first.threw THEN <<>> ELSE <<first.node>>) \o rest.nodes]

\* The loop of SepaPaymentInfo.prototype.toXML over this._payments: the
\* transaction elements, or nothing when one of them throws.
RECURSIVE PaymentsToXML(_, _)
PaymentsToXML(payments, ts) ==
  IF payments = <<>> THEN [threw |-> FALSE, nodes |-> <<>>]
  ELSE LET first == TransactionToXML(ts[Head(payments).i])
           rest == PaymentsToXML(Tail(payments), ts)
       IN IF first.threw \/ rest.threw THEN [threw |-> TRUE, nodes |-> <<>>]
          ELSE [threw |-> FALSE, nodes |-> <<first.node>> \o rest.nodes]

\* SepaPaymentInfo.prototype.toXML
PaymentInfoToXML(pi, ts) ==
  LET isDebit == pi.method = PaymentInfoTypes.DirectDebit
      painVersion == getPainXMLVersion(pi._painFormat)
      pullFrom == IF isDebit THEN pi.creditor ELSE pi.debtor
      emitterNodeName == IF isDebit THEN "Cdtr" ELSE "Dbtr"
      agentName == IF painVersion = 3 THEN "Agt" ELSE "Agnt"
      date == IF isDebit THEN pi.collectionDate ELSE pi.requestedExecutionDate
      aggregates == IF painVersion = 3
                    THEN R(<<"BtchBookg">>, BoolToString(pi.batchBooking))
                         \o R(<<"NbOfTxs">>, NumToStr(transactionCount(pi)))
                         \o R(<<"CtrlSum">>, toFixed2(pi.controlSum))
                    ELSE <<>>
      pmtTpInf == N(<<"PmtTpInf">>,
                    R(<<"SvcLvl", "Cd">>, <<"S","E","P","A">>)
                    \o (IF Truthy(pi.localInstrumentation)
                        THEN R(<<"LclInstrm", "Cd">>, pi.localInstrumentation)
                        ELSE <<>>)
                    \o (IF isDebit THEN R(<<"SeqTp">>, pi.sequenceType) ELSE <<>>))
      reqdDate == R(<<IF isDebit THEN "ReqdColltnDt" ELSE "ReqdExctnDt">>,
                    substr(date, 0, 10))
      emitter == N(<<emitterNodeName>>,
                   R(<<"Nm">>, pullFrom.Name)
                   \o (IF Truthy(pullFrom.Street) /\ Truthy(pullFrom.City)
                          /\ Truthy(pullFrom.Country)
                       THEN PstlAdr(pullFrom) ELSE <<>>))
      agent == IF Truthy(pullFrom.BIC)
               THEN R(<<emitterNodeName \o agentName, "FinInstnId", "BIC">>, pullFrom.BIC)
               ELSE R(<<emitterNodeName \o agentName, "FinInstnId", "Othr", "Id">>,
                      <<"N","O","T","P","R","O","V","I","D","E","D">>)
      creditorScheme == IF isDebit
                        THEN N(<<"CdtrSchmeId", "Id", "PrvtId", "Othr">>,
                               R(<<"Id">>, pi.creditorId)
                               \o R(<<"SchmeNm", "Prtry">>, <<"S","E","P","A">>))
                        ELSE <<>>
      payments == PaymentsToXML(pi._payments, ts)
  IN IF date = Null \/ payments.threw THEN TypeErrorThrown
     ELSE Built(Elem("PmtInf", <<>>, <<>>,
            R(<<"PmtInfId">>, pi.id) \o R(<<"PmtMtd">>, pi.method)
            \o aggregates \o pmtTpInf \o reqdDate \o emitter
            \o R(<<emitterNodeName \o "Acct", "Id", "IBAN">>, pullFrom.IBAN)
            \o agent
            \o R(<<"ChrgBr">>, <<"S","L","E","V">>)
            \o creditorScheme
            \o payments.nodes))

\* The loop of SepaDocument.prototype.toXML over this._paymentInfo.
RECURSIVE PaymentInfosToXML(_, _, _)
PaymentInfosToXML(list, ps, ts) ==
  IF list = <<>> THEN [threw |-> FALSE, nodes |-> <<>>]
  ELSE LET first == PaymentInfoToXML(ps[Head(list).i], ts)
           rest == PaymentInfosToXML(Tail(list), ps, ts)
       IN IF first.threw \/ rest.threw THEN [threw |-> TRUE, nodes |-> <<>>]
          ELSE [threw |-> FALSE, nodes |-> <<first.node>> \o rest.nodes]

\* The DOM implementations createDocument picks from.  createElementNS with
\* the name undefined throws a TypeError in xmldom and creates an element
\* named "undefined" in a browser.
DOMs == {"xmldom", "browser"}

\* this.normalize(), as toXML calls it first (the mutant leaves the call out).
toXML_normalize_Skipped(d, h, ps, ts) == [pis |-> ps, hdr |-> h]

toXML_normalize(d, h, ps, ts) == Normalize(d, h, ps, ts)

\* SepaDocument.prototype.toXML after its normalize() call: the Document
\* element, or a TypeError.
DocumentToXML(d, h, ps, ts, dom) ==
  LET docNS == XSI_NS \o FormatChars(d._painFormat)
      attrs == <<[name |-> "xmlns", value |-> docNS],
                 [name |-> "xsi:schemaLocation",
                  value |-> XSI_NS \o FormatChars(d._painFormat) \o <<" ">>
                            \o FormatChars(d._painFormat) \o <<".","x","s","d">>]>>
      hdrXML == GroupHeaderToXML(h)
      pisXML == PaymentInfosToXML(d._paymentInfo, ps, ts)
  IN IF d._type = "undefined" /\ dom = "xmldom" THEN TypeErrorThrown
     ELSE IF hdrXML.threw \/ pisXML.threw THEN TypeErrorThrown
     ELSE Built(Elem("Document", <<>>, attrs,
            <<Elem(d._type, <<>>, <<>>, <<hdrXML.node>> \o pisXML.nodes)>>))

\* ------------------------------------------------- inputs of the entity model

FormatOptions == RegisteredFormats \cup {"pain.002.001.03", ""}
HeaderIds ==
  {<<"M","S","G","1">>,
   <<"M","S","G","-","2","0","1","5","-","0","3","-","0","4","-","A","C","M","E","-",
     "P","A","Y","R","O","L","L","-","R","U","N","-","1">>}
Separators == {<<".">>, <<"-">>}
ExplicitIds == {<<>>, <<"B","1">>}
Dates == {Null, DateISO}
Amounts == {1000, 550}
\* Values a caller writes into the aggregate fields by hand.
JunkCounts == {0, 7}
JunkSums == {0, 77700}

Names == {<<>>, <<"A","C","M","E">>}
\* The addresses a caller gives a party: a whole one, and one without a city.
Addresses(who) ==
  LET tag == IF who = "debtor" THEN "D" ELSE "C"
      whole == [Street |-> <<tag, "-", "S", "t", "r">>,
                City |-> <<tag, "-", "C", "i", "t", "y">>,
                Country |-> <<tag, "E">>]
  IN {whole, [whole EXCEPT !.City = Null]}

OK == [threw |-> "", tree |-> <<>>]
Threw(msg) == [threw |-> msg, tree |-> <<>>]
Returned(node) == [threw |-> "", tree |-> <<node>>]

NotPaymentInfoError == "Given payment is not member of the PaymentInfo class"
NotTransactionError == "Given Transaction is not member of the SepaTransaction class"

\* The state after new SEPA.Document(options), for the given options.
Constructed(f, hid, cr) ==
  LET options == [painFormat |-> f, id |-> hid, created |-> cr,
                  initiatorName |-> <<>>]
      d == SepaDocument(options)
  IN /\ kind = "none" /\ orig = <<>> /\ str = <<>> /\ calls = <<>>
     /\ valid = FALSE /\ mod = 0
     /\ ID_SEPARATOR = <<".">>
     /\ doc = d.doc
     /\ grpHdr = d.grpHdr
     /\ pis = [i \in 1..MaxPI |-> NoPaymentInfo]
     /\ txs = [i \in 1..MaxTx |-> NoTransaction]
     /\ call = "new"
     /\ ret = OK
     /\ nops = 0

\* Every call counts towards the number of calls a behaviour of the model makes.
Counted == nops < MaxOps /\ nops' = nops + 1 /\ UNCHANGED chkVars

setIDSeparator(seperator) ==
  /\ Counted
  /\ ID_SEPARATOR' = seperator
  /\ call' = "setIDSeparator"
  /\ ret' = OK
  /\ UNCHANGED <<doc, grpHdr, pis, txs>>

\* doc.createPaymentInfo(), then the caller's writes of the new object's id and
\* of the date its method requires.
createPaymentInfo(id, date) ==
  /\ Counted
  /\ Cardinality(MadePIs) < MaxPI
  /\ LET n == Cardinality(MadePIs) + 1
         fresh == SepaPaymentInfo(doc._painFormat)
         pi == IF fresh.method = PaymentInfoTypes.DirectDebit
               THEN [fresh EXCEPT !.id = id, !.collectionDate = date]
               ELSE [fresh EXCEPT !.id = id, !.requestedExecutionDate = date]
     IN pis' = [pis EXCEPT ![n] = pi]
  /\ call' = "createPaymentInfo"
  /\ ret' = OK
  /\ UNCHANGED <<ID_SEPARATOR, doc, grpHdr, txs>>

\* pi.id as addPaymentInfo assigns it (the mutant numbers the blocks from 1).
PaymentInfoId_FromOne(hdrId, sep, pi, count) ==
  IF Truthy(pi.id) THEN hdrId \o sep \o pi.id
  ELSE hdrId \o sep \o NumToStr(count + 1)

PaymentInfoId(hdrId, sep, pi, count) ==
  IF Truthy(pi.id) THEN hdrId \o sep \o pi.id
  ELSE hdrId \o sep \o NumToStr(count)

addPaymentInfo(v) ==
  /\ Counted
  /\ call' = "addPaymentInfo"
  /\ IF ~IsPaymentInfo(v)
     THEN /\ ret' = Threw(NotPaymentInfoError)
          /\ UNCHANGED <<ID_SEPARATOR, doc, grpHdr, pis, txs>>
     ELSE /\ Len(doc._paymentInfo) < MaxBatches
          /\ pis' = [pis EXCEPT ![v.i].id =
                       PaymentInfoId(grpHdr.id, ID_SEPARATOR, pis[v.i],
                                     Len(doc._paymentInfo))]
          /\ doc' = [doc EXCEPT !._paymentInfo = Append(@, v)]
          /\ ret' = OK
          /\ UNCHANGED <<ID_SEPARATOR, grpHdr, txs>>

\* pi.createTransaction(), then the caller's writes of the new object's id,
\* amount and mandate signature date.
createTransaction(p, id, amount, date) ==
  /\ Counted
  /\ Cardinality(MadeTXs) < MaxTx
  /\ LET n == Cardinality(MadeTXs) + 1
         fresh == SepaTransaction(pis[p]._painFormat)
     IN txs' = [txs EXCEPT ![n] = [fresh EXCEPT !.id = id, !.amount = amount,
                                                !.mandateSignatureDate = date]]
  /\ call' = "createTransaction"
  /\ ret' = OK
  /\ UNCHANGED <<ID_SEPARATOR, doc, grpHdr, pis>>

\* pmt.id as addTransaction assigns it.
TransactionId(pi, sep, pmt) ==
  slice0(IF Truthy(pmt.id) THEN pmt.id
         ELSE pi.id \o sep \o NumToStr(Len(pi._payments)), 35)

addTransaction(p, v) ==
  /\ Counted
  /\ call' = "addTransaction"
  /\ IF ~IsTransaction(v)
     THEN /\ ret' = Threw(NotTransactionError)
          /\ UNCHANGED <<ID_SEPARATOR, doc, grpHdr, pis, txs>>
     ELSE /\ Len(pis[p]._payments) < MaxPayments
          /\ txs' = [txs EXCEPT ![v.i].id = TransactionId(pis[p], ID_SEPARATOR, txs[v.i])]
          /\ pis' = [pis EXCEPT ![p]._payments = Append(@, v)]
          /\ ret' = OK
          /\ UNCHANGED <<ID_SEPARATOR, doc, grpHdr>>

\* The caller's write pmt.amount = amount.
setAmount(t, amount) ==
  /\ Counted
  /\ txs[t].amount # amount
  /\ txs' = [txs EXCEPT ![t].amount = amount]
  /\ call' = "setAmount"
  /\ ret' = OK
  /\ UNCHANGED <<ID_SEPARATOR, doc, grpHdr, pis>>

\* The caller's writes doc.grpHdr.transactionCount = count and
\* doc.grpHdr.controlSum = sum.
setHeaderAggregates(count, sum) ==
  /\ Counted
  /\ grpHdr' = [grpHdr EXCEPT !.transactionCount = count, !.controlSum = sum]
  /\ grpHdr' # grpHdr
  /\ call' = "setHeaderAggregates"
  /\ ret' = OK
  /\ UNCHANGED <<ID_SEPARATOR, doc, pis, txs>>

\* The caller's write pi.controlSum = sum.
setControlSum(p, sum) ==
  /\ Counted
  /\ pis[p].controlSum # sum
  /\ pis' = [pis EXCEPT ![p].controlSum = sum]
  /\ call' = "setControlSum"
  /\ ret' = OK
  /\ UNCHANGED <<ID_SEPARATOR, doc, grpHdr, txs>>

\* pi.normalize()
normalizePaymentInfo(p) ==
  /\ Counted
  /\ pis' = [pis EXCEPT ![p] = PINormalize(pis[p], txs)]
  /\ call' = "normalizePaymentInfo"
  /\ ret' = OK
  /\ UNCHANGED <<ID_SEPARATOR, doc, grpHdr, txs>>

\* doc.normalize()
normalize ==
  /\ Counted
  /\ LET n == Normalize(doc, grpHdr, pis, txs)
     IN pis' = n.pis /\ grpHdr' = n.hdr
  /\ call' = "normalize"
  /\ ret' = OK
  /\ UNCHANGED <<ID_SEPARATOR, doc, txs>>

\* doc.toXML(), with the DOM implementation the environment provides.
toXML(dom) ==
  /\ Counted
  /\ LET n == toXML_normalize(doc, grpHdr, pis, txs)
         x == DocumentToXML(doc, n.hdr, n.pis, txs, dom)
     IN /\ pis' = n.pis /\ grpHdr' = n.hdr
        /\ ret' = IF x.threw THEN Threw("TypeError") ELSE Returned(x.node)
  /\ call' = "toXML"
  /\ UNCHANGED <<ID_SEPARATOR, doc, txs>>

\* The caller's write doc.grpHdr.initiatorName = name.
setInitiatorName(name) ==
  /\ Counted
  /\ grpHdr.initiatorName # name
  /\ grpHdr' = [grpHdr EXCEPT !.initiatorName = name]
  /\ call' = "setInitiatorName"
  /\ ret' = OK
  /\ UNCHANGED <<ID_SEPARATOR, doc, pis, txs>>

\* The caller's writes of a transaction's debtorStreet, debtorCity and
\* debtorCountry (who = "debtor") or of its creditor fields (who = "creditor").
setAddress(t, who, adr) ==
  /\ Counted
  /\ txs' = [txs EXCEPT ![t][who] = [@ EXCEPT !.Street = adr.Street,
                                              !.City = adr.City,
                                              !.Country = adr.Country]]
  /\ txs' # txs
  /\ call' = "setAddress"
  /\ ret' = OK
  /\ UNCHANGED <<ID_SEPARATOR, doc, grpHdr, pis>>

\* Values a caller can pass to an add operation.
Arguments ==
  {PIRef(i) : i \in MadePIs} \cup {TXRef(i) : i \in MadeTXs} \cup {OtherValue}

\* The entity model and its serialization: one direct-debit and one
\* credit-transfer format, ids left to the document, every date present.
Init ==
  \E f \in {"", "pain.001.001.02"} : Constructed(f, <<"M","S","G","1">>, DateISO)

Next ==
  \/ createPaymentInfo(<<>>, DateISO)
  \/ \E p \in MadePIs : addPaymentInfo(PIRef(p))
  \/ \E p \in MadePIs, a \in Amounts : createTransaction(p, <<>>, a, DateISO)
  \/ \E p \in MadePIs, t \in MadeTXs : addTransaction(p, TXRef(t))
  \/ \E t \in MadeTXs, a \in Amounts : setAmount(t, a)
  \/ \E c \in JunkCounts, x \in JunkSums : setHeaderAggregates(c, x)
  \/ \E p \in MadePIs, x \in JunkSums : setControlSum(p, x)
  \/ \E p \in MadePIs : normalizePaymentInfo(p)
  \/ normalize
  \/ \E dom \in DOMs : toXML(dom)

Spec == Init /\ [][Next]_vars

\* Id assignment: both header ids, both separators, explicit and assigned ids,
\* and every kind of value passed to the add operations; amounts are left at
\* the prototype's 0, and normalize stands for the calls that walk the batches
\* without writing an id.
InitIds ==
  \E hid \in HeaderIds : Constructed("", hid, DateISO)

NextIds ==
  \/ \E sep \in Separators : setIDSeparator(sep)
  \/ \E id \in ExplicitIds : createPaymentInfo(id, DateISO)
  \/ \E v \in Arguments : addPaymentInfo(v)
  \/ \E p \in MadePIs, id \in ExplicitIds : createTransaction(p, id, 0, DateISO)
  \/ \E p \in MadePIs, v \in Arguments : addTransaction(p, v)
  \/ normalize

SpecIds == InitIds /\ [][NextIds]_vars

\* Formats: every registered identifier, an unregistered one and none, with
\* the header's creation date present or missing.
InitFmt ==
  \E f \in FormatOptions, cr \in Dates : Constructed(f, <<"M","S","G","1">>, cr)

NextFmt ==
  \/ createPaymentInfo(<<>>, DateISO)
  \/ \E p \in MadePIs : addPaymentInfo(PIRef(p))
  \/ \E p \in MadePIs : createTransaction(p, <<>>, 1000, DateISO)
  \/ \E p \in MadePIs, t \in MadeTXs : addTransaction(p, TXRef(t))
  \/ \E dom \in DOMs : toXML(dom)

SpecFmt == InitFmt /\ [][NextFmt]_vars

\* Dates: a direct-debit format, a credit-transfer format and an unregistered
\* one, with every date of the header, the batches and the transactions
\* present or missing.
InitDates ==
  \E f \in {"", "pain.001.001.03", "pain.002.001.03"}, cr \in Dates :
    Constructed(f, <<"M","S","G","1">>, cr)

NextDates ==
  \/ \E d \in Dates : createPaymentInfo(<<>>, d)
  \/ \E p \in MadePIs : addPaymentInfo(PIRef(p))
  \/ \E p \in MadePIs, d \in Dates : createTransaction(p, <<>>, 1000, d)
  \/ \E p \in MadePIs, t \in MadeTXs : addTransaction(p, TXRef(t))
  \/ \E name \in Names : setInitiatorName(name)
  \/ \E dom \in DOMs : toXML(dom)

SpecDates == InitDates /\ [][NextDates]_vars

\* Addresses: a direct-debit and a credit-transfer format, every date present,
\* the debtor's and the creditor's address of each transaction whole, partial
\* or missing.
InitAdr ==
  \E f \in {"", "pain.001.001.03"} : Constructed(f, <<"M","S","G","1">>, DateISO)

NextAdr ==
  \/ createPaymentInfo(<<>>, DateISO)
  \/ \E p \in MadePIs : addPaymentInfo(PIRef(p))
  \/ \E p \in MadePIs : createTransaction(p, <<>>, 1000, DateISO)
  \/ \E p \in MadePIs, t \in MadeTXs : addTransaction(p, TXRef(t))
  \/ \E t \in MadeTXs, who \in {"debtor", "creditor"} :
       \E adr \in Addresses(who) : setAddress(t, who, adr)
  \/ \E dom \in DOMs : toXML(dom)

SpecAdr == InitAdr /\ [][NextAdr]_vars

\* ------------------------------------------------------------------ claims

\* The numeric value of a digit string (native integers: at most 9 digits).
RECURSIVE NumVal(_)
NumVal(s) ==
  IF s = <<>> THEN 0 ELSE NumVal(SubSeq(s, 1, Len(s) - 1)) * 10 + parseInt10(s[Len(s)])

\* 10^k modulo 97, by repeated multiplication.
RECURSIVE Pow10Mod97(_)
Pow10Mod97(k) == IF k = 0 THEN 1 ELSE (Pow10Mod97(k - 1) * 10) % 97

\* The value of a digit string of any length modulo 97, as the sum of its digits
\* weighted by their place values modulo 97 (no left-to-right accumulator).
RECURSIVE WeightedSum(_)
WeightedSum(s) ==
  IF s = <<>> THEN 0
  ELSE parseInt10(Head(s)) * Pow10Mod97(Len(s) - 1) + WeightedSum(Tail(s))

SamePlacesExceptCheck(a, b) ==
  /\ Len(a) = Len(b)
  /\ \A i \in 1..Len(a) : i \notin {3, 4} => a[i] = b[i]

\* C1: for every IBAN skeleton (country code, two placeholder characters,
\* alphanumeric body) checksumIBAN changes nothing but the characters at
\* positions 2-3, which become two decimal digits, validateIBAN accepts its
\* result, and DE00123456781234567890 becomes DE87123456781234567890.
C1_IBANRoundTrip ==
  kind = "iban" =>
    /\ (calls # <<>> /\ calls[1] = "checksumIBAN") =>
         /\ SamePlacesExceptCheck(str, orig)
         /\ IsIn(Digits, str[3]) /\ IsIn(Digits, str[4])
         /\ (orig = IbanExample => str = IbanExampleChecked)
    /\ calls = <<"checksumIBAN", "validateIBAN">> => valid

C1_Witness ==
  /\ kind = "iban" /\ orig = IbanExample /\ str = IbanExampleChecked
  /\ calls = <<"checksumIBAN", "validateIBAN">> /\ valid

\* C2: for every creditor id skeleton (country code, two placeholder characters,
\* three-character business code, alphanumeric national id) validateCreditorID
\* accepts checksumCreditorID's result, and DE00ZZZ09999999999 becomes
\* DE98ZZZ09999999999.
C2_CreditorIDRoundTrip ==
  kind = "cid" =>
    /\ (calls # <<>> /\ calls[1] = "checksumCreditorID") =>
         /\ SamePlacesExceptCheck(str, orig)
         /\ (orig = CidExample => str = CidExampleChecked)
    /\ calls = <<"checksumCreditorID", "validateCreditorID">> => valid

C2_Witness ==
  /\ kind = "cid" /\ orig = CidExample /\ str = CidExampleChecked
  /\ calls = <<"checksumCreditorID", "validateCreditorID">> /\ valid

\* C3: for every digit string _txtMod97 returns the string's numeric value
\* modulo 97 (compared with the value itself up to 9 digits, and with the
\* place-value sum for every length), and every value its accumulator takes
\* lies in 0..96.
C3_Mod97Correct ==
  (kind = "digits" /\ calls = <<"_txtMod97">>) =>
    /\ Len(orig) <= 9 => mod = NumVal(orig) % 97
    /\ mod = WeightedSum(orig) % 97
    /\ \A i \in 1..Len(orig) : Mod97Accs(0, orig)[i] \in 0..96
    /\ mod \in 0..96

C3_Witness ==
  /\ kind = "digits" /\ calls = <<"_txtMod97">>
  /\ orig = LongDigits /\ mod = 56

\* ---- the entity model

RECURSIVE SeqSum(_)
SeqSum(q) == IF Len(q) = 0 THEN 0 ELSE q[1] + SeqSum(SubSeq(q, 2, Len(q)))

\* The payment-info blocks attached to the document / the transactions attached
\* to a block, as objects, in order.
Batches == [k \in 1..Len(doc._paymentInfo) |-> pis[doc._paymentInfo[k].i]]
PaymentsOf(pi) == [k \in 1..Len(pi._payments) |-> txs[pi._payments[k].i]]

\* The totals of the transactions present, computed from the transactions.
BatchCount(pi) == Len(PaymentsOf(pi))
BatchSum(pi) == SeqSum([k \in 1..Len(pi._payments) |-> PaymentsOf(pi)[k].amount])
TotalCount == SeqSum([k \in 1..Len(Batches) |-> BatchCount(Batches[k])])
TotalSum == SeqSum([k \in 1..Len(Batches) |-> BatchSum(Batches[k])])

\* The tree the last call returned, and the nodes of it the claims read.
KidsNamed(node, name) == SelectSeq(node.kids, LAMBDA k : k.name = name)
HasKid(node, name) == KidsNamed(node, name) # <<>>
TextOf(node, name) == KidsNamed(node, name)[1].text
Serialized == call = "toXML" /\ ret.tree # <<>>
RootNode == ret.tree[1].kids[1]
HdrNode == KidsNamed(RootNode, "GrpHdr")[1]
PmtInfNodes == KidsNamed(RootNode, "PmtInf")

\* C4: after doc.normalize() every attached block's control sum is the sum of
\* its transactions' amounts and the header's count and sum are the totals over
\* the blocks, whatever the fields held before; normalizing again changes
\* neither the header nor any block.
C4_NormalizeIdempotent ==
  call = "normalize" =>
    /\ \A k \in 1..Len(Batches) : Batches[k].controlSum = BatchSum(Batches[k])
    /\ grpHdr.transactionCount = TotalCount
    /\ grpHdr.controlSum = TotalSum
    /\ Normalize(doc, grpHdr, pis, txs) = [pis |-> pis, hdr |-> grpHdr]

C4_Witness ==
  /\ call = "normalize"
  /\ Len(Batches) = 1
  /\ Len(Batches[1]._payments) = 2
  /\ PaymentsOf(Batches[1])[1].amount = 1000
  /\ PaymentsOf(Batches[1])[2].amount = 550
  /\ grpHdr.controlSum = 1550 /\ grpHdr.transactionCount = 2

\* C5: the tree doc.toXML() returns carries, in its header, the count and the
\* sum of the transactions present at that moment and, in version family 3, in
\* every PmtInf the count and sum of that block's transactions, whatever the
\* aggregate fields held before the call.
C5_SerializedTotalsRecomputed ==
  Serialized =>
    /\ TextOf(HdrNode, "NbOfTxs") = NumToStr(TotalCount)
    /\ TextOf(HdrNode, "CtrlSum") = toFixed2(TotalSum)
    /\ Len(PmtInfNodes) = Len(Batches)
    /\ getPainXMLVersion(doc._painFormat) = 3 =>
         \A k \in 1..Len(Batches) :
           /\ TextOf(PmtInfNodes[k], "NbOfTxs") = NumToStr(BatchCount(Batches[k]))
           /\ TextOf(PmtInfNodes[k], "CtrlSum") = toFixed2(BatchSum(Batches[k]))

C5_Witness ==
  /\ Serialized
  /\ getPainXMLVersion(doc._painFormat) = 3
  /\ Len(PmtInfNodes) = 1
  /\ TextOf(PmtInfNodes[1], "NbOfTxs") = <<"2">>
  /\ TextOf(HdrNode, "CtrlSum") = <<"1","5",".","5","0">>

\* ---- id assignment

IsAttached(p) == \E k \in 1..Len(doc._paymentInfo) : doc._paymentInfo[k].i = p
IsAttachedTx(t) ==
  \E p \in MadePIs : IsAttached(p) /\ \E k \in 1..Len(pis[p]._payments) :
     pis[p]._payments[k].i = t

\* A step in which addPaymentInfo attached a block / addTransaction attached a
\* transaction to block p.
AttachesBatch == call' = "addPaymentInfo" /\ ret'.threw = ""
AttachesTxTo(p) ==
  call' = "addTransaction" /\ ret'.threw = "" /\ pis'[p]._payments # pis[p]._payments

\* The id a step gives the object it attaches: a block gets the header id, the
\* separator in effect and its explicit id or the number of blocks attached
\* before; a transaction without an explicit id gets its block's id, the
\* separator and the number of transactions attached before, cut to `cut`
\* characters.
AssignsIds(cut) ==
  /\ AttachesBatch =>
       LET b == doc'._paymentInfo[Len(doc'._paymentInfo)].i
       IN pis'[b].id = grpHdr.id \o ID_SEPARATOR
                         \o (IF pis[b].id # <<>> THEN pis[b].id
                             ELSE NumToStr(Len(doc._paymentInfo)))
  /\ \A p \in MadePIs :
       (AttachesTxTo(p) /\ IsAttached(p)) =>
         LET t == pis'[p]._payments[Len(pis'[p]._payments)].i
         IN txs[t].id = <<>> =>
              txs'[t].id = slice0(pis[p].id \o ID_SEPARATOR
                                    \o NumToStr(Len(pis[p]._payments)), cut)

\* The ids of attached objects stay as they are, except (when reAdd) that of a
\* block the step passes to addPaymentInfo again.
KeepsIds(reAdd) ==
  /\ \A p \in MadePIs :
       IsAttached(p) =>
         \/ pis'[p].id = pis[p].id
         \/ reAdd /\ AttachesBatch /\ doc'._paymentInfo[Len(doc'._paymentInfo)].i = p
  /\ \A t \in MadeTXs : IsAttachedTx(t) => txs'[t].id = txs[t].id

C7_IdLengthBound ==
  /\ \A p \in MadePIs : IsAttached(p) => Len(pis[p].id) <= 35
  /\ \A t \in MadeTXs : IsAttachedTx(t) => Len(txs[t].id) <= 35

\* C9: addPaymentInfo succeeds only for a SepaPaymentInfo and addTransaction
\* only for a SepaTransaction; for any other value the call throws its
\* type-mismatch error and changes no object, no child sequence and no id.
TypeMismatch == {NotPaymentInfoError, NotTransactionError}

C9_TypeMismatchChangesNothing ==
  [][/\ call' = "addPaymentInfo" =>
          IF ret'.threw = ""
          THEN /\ Len(doc'._paymentInfo) = Len(doc._paymentInfo) + 1
               /\ doc'._paymentInfo[Len(doc'._paymentInfo)].k = "PI"
          ELSE /\ ret'.threw = NotPaymentInfoError
               /\ UNCHANGED <<ID_SEPARATOR, doc, grpHdr, pis, txs>>
     /\ call' = "addTransaction" =>
          IF ret'.threw = ""
          THEN \E p \in MadePIs :
                 /\ Len(pis'[p]._payments) = Len(pis[p]._payments) + 1
                 /\ pis'[p]._payments[Len(pis'[p]._payments)].k = "TX"
          ELSE /\ ret'.threw = NotTransactionError
               /\ UNCHANGED <<ID_SEPARATOR, doc, grpHdr, pis, txs>>]_vars

C9_Witness ==
  /\ call = "addPaymentInfo" /\ ret.threw \in TypeMismatch
  /\ Len(doc._paymentInfo) = 1 /\ MadeTXs # {}

\* ---- formats

\* The version family of each registered format, as the formats are listed.
FamilyOf(f) ==
  CASE f \in {"pain.001.001.02", "pain.001.003.02", "pain.008.001.01", "pain.008.003.01"} -> 2
    [] f \in {"pain.001.001.03", "pain.001.002.03", "pain.001.003.03",
              "pain.008.001.02", "pain.008.003.02"} -> 3

\* C8: for every registered format the version family is 2 or 3; the header
\* carries BtchBookg and Grpg exactly in family 2, and every PmtInf carries
\* BtchBookg, NbOfTxs and CtrlSum exactly in family 3.
C8_VersionFamilyBranching ==
  doc._painFormat \in RegisteredFormats =>
    LET v == FamilyOf(doc._painFormat)
    IN /\ getPainXMLVersion(doc._painFormat) = v
       /\ v \in {2, 3}
       /\ Serialized =>
            /\ HasKid(HdrNode, "BtchBookg") <=> v = 2
            /\ HasKid(HdrNode, "Grpg") <=> v = 2
            /\ HasKid(HdrNode, "NbOfTxs") /\ HasKid(HdrNode, "CtrlSum")
            /\ \A k \in 1..Len(PmtInfNodes) :
                 /\ HasKid(PmtInfNodes[k], "BtchBookg") <=> v = 3
                 /\ HasKid(PmtInfNodes[k], "NbOfTxs") <=> v = 3
                 /\ HasKid(PmtInfNodes[k], "CtrlSum") <=> v = 3

C8_Witness ==
  /\ Serialized
  /\ doc._painFormat = "pain.001.001.03"
  /\ Len(PmtInfNodes) = 1
  /\ HasKid(PmtInfNodes[1], "CtrlSum") /\ ~HasKid(HdrNode, "Grpg")

\* C10: for a format identifier that is not registered no call returns a tree:
\* the construction or the serialization fails.
C10_UnknownFormatFails ==
  doc._painFormat \notin RegisteredFormats => ret.tree = <<>>

\* ---- required dates

\* The date a block's method requires.
RequiredDate(pi) ==
  IF pi.method = PaymentInfoTypes.DirectDebit
  THEN pi.collectionDate ELSE pi.requestedExecutionDate

\* Every attached block has the date its method requires and every
\* direct-debit transaction attached to one has its mandate signature date.
RequiredDatesPresent ==
  \A k \in 1..Len(Batches) :
    /\ RequiredDate(Batches[k]) # Null
    /\ \A j \in 1..Len(Batches[k]._payments) :
         LET t == PaymentsOf(Batches[k])[j]
         IN t._type = TransactionTypes.DirectDebit => t.mandateSignatureDate # Null

\* The date element of a serialized block.
DateTextOf(node) ==
  IF HasKid(node, "ReqdColltnDt") THEN TextOf(node, "ReqdColltnDt")
  ELSE TextOf(node, "ReqdExctnDt")

\* With a required date missing doc.toXML() throws and returns no tree; a tree
\* it returns holds every block and every transaction with its own date.
FailsWithoutDates ==
  call = "toXML" =>
    /\ ~RequiredDatesPresent => (ret.tree = <<>> /\ ret.threw # "")
    /\ ret.tree # <<>> =>
         /\ Len(PmtInfNodes) = Len(Batches)
         /\ \A k \in 1..Len(Batches) :
              /\ DateTextOf(PmtInfNodes[k]) = substr(RequiredDate(Batches[k]), 0, 10)
              /\ Len(KidsNamed(PmtInfNodes[k], "DrctDbtTxInf"))
                  + Len(KidsNamed(PmtInfNodes[k], "CdtTrfTxInf"))
                  = Len(Batches[k]._payments)

\* C11 as stated: with a required date of a block or of a direct-debit
\* transaction missing doc.toXML() fails and returns no tree; with all of them
\* present and a registered format it returns a tree, whatever the other
\* fields hold.
C11_RequiredDatesAsStated ==
  /\ FailsWithoutDates
  /\ (call = "toXML" /\ RequiredDatesPresent
       /\ doc._painFormat \in RegisteredFormats) => ret.tree # <<>>

\* C11: with a required date of a block or of a direct-debit transaction
\* missing doc.toXML() fails and returns no tree; with all of them and the
\* header's creation date present and a registered format it returns a tree,
\* whatever the other fields hold.
C11_RequiredDates ==
  /\ FailsWithoutDates
  /\ (call = "toXML" /\ RequiredDatesPresent /\ grpHdr.created # Null
       /\ doc._painFormat \in RegisteredFormats) => ret.tree # <<>>

C11_Witness ==
  /\ call = "toXML" /\ ret.threw # "" /\ ret.tree = <<>>
  /\ doc._painFormat = "pain.008.001.02"
  /\ grpHdr.created # Null
  /\ Len(Batches) = 1 /\ RequiredDate(Batches[1]) # Null
  /\ Len(Batches[1]._payments) = 2
  /\ PaymentsOf(Batches[1])[1].mandateSignatureDate # Null
  /\ PaymentsOf(Batches[1])[2].mandateSignatureDate = Null

\* ---- counterparty address

\* The transaction elements of a serialized block, in order.
TxNodes(node) ==
  SelectSeq(node.kids, LAMBDA k : k.name \in {TransactionTypes.DirectDebit,
                                               TransactionTypes.Transfer})

\* The counterparty of a transaction and the element it is serialized as.
Counterparty(t) ==
  IF t._type = TransactionTypes.Transfer THEN t.creditor ELSE t.debtor
CounterpartyNode(t, node) ==
  KidsNamed(node, IF t._type = TransactionTypes.Transfer THEN "Cdtr" ELSE "Dbtr")[1]

\* C12: in the tree doc.toXML() returns, the counterparty element of every
\* transaction (Cdtr for a transfer, Dbtr for a direct debit) holds a PstlAdr
\* exactly when the counterparty's street, city and country are all present,
\* and that PstlAdr carries the counterparty's own country, street and city.
C12_CounterpartyAddress ==
  Serialized =>
    \A k \in 1..Len(Batches) :
      \A j \in 1..Len(Batches[k]._payments) :
        LET t == PaymentsOf(Batches[k])[j]
            party == Counterparty(t)
            cp == CounterpartyNode(t, TxNodes(PmtInfNodes[k])[j])
            whole == Truthy(party.Street) /\ Truthy(party.City)
                     /\ Truthy(party.Country)
        IN /\ HasKid(cp, "PstlAdr") <=> whole
           /\ whole =>
                LET pstl == KidsNamed(cp, "PstlAdr")[1]
                IN /\ TextOf(pstl, "Ctry") = party.Country
                   /\ Len(KidsNamed(pstl, "AdrLine")) = 2
                   /\ KidsNamed(pstl, "AdrLine")[1].text = party.Street
                   /\ KidsNamed(pstl, "AdrLine")[2].text = party.City

====
